---- MODULE Spec2Model ----
(***************************************************************************)
(* Model of src/main.py: build_painless_script, its nested parse_rules,   *)
(* and the Painless map and reduce scripts it generates.                   *)
(*                                                                         *)
(* Python strings are sequences of one-character strings, so that strip,   *)
(* lower, split, the "in" substring test and the two regular expressions   *)
(* are computed character by character as the interpreter computes them.   *)
(***************************************************************************)
EXTENDS Integers, Sequences, FiniteSets, TLC

VARIABLES
    \* build_painless_script
    pc, rules_exists, sheet, df, i, numerator_text, denominator_text,
    map_script, output, error,
    \* parse_rules, one loop iteration at a time
    ppc, rule_text, lines, li, conditions, added, painless_condition,
    \* the generated init_script / map_script run over documents
    mpc, num_rules, den_rules, docs, di, state_map,
    \* the generated reduce_script
    rpc, states, ri, new_map, return_map

pipeVars == <<pc, rules_exists, sheet, df, i, numerator_text,
        denominator_text,
              map_script, output, error>>
parseVars == <<ppc, rule_text, lines, li, conditions, added,
        painless_condition>>
mapVars == <<mpc, num_rules, den_rules, docs, di, state_map>>
reduceVars == <<rpc, states, ri, new_map, return_map>>
vars == <<pipeVars, parseVars, mapVars, reduceVars>>

----------------------------------------------------------------------------
(* Bounds of the model. *)

\* rule lines per rule text
MaxLines == 3
\* rows of the rules table
MaxRows == 2
\* documents the map script runs over
MaxDocs == 3
\* shard states the reduce script iterates over
MaxShards == 3

----------------------------------------------------------------------------
(* Python values that are not strings. *)

\* Python's None
None == <<"<None>">>
\* an empty spreadsheet cell, read by pandas as float NaN
NaN == <<"<NaN>">>

----------------------------------------------------------------------------
(* Python str operations. *)

\* the characters str.strip() removes and \s matches
Whitespace == {" ", "\t", "\n"}

\* "ABCDEFGHIJKLMNOPQRSTUVWXYZ"
UpperCase == <<"A", "B", "C", "D", "E", "F", "G", "H", "I", "J", "K", "L",
        "M", "N", "O", "P", "Q", "R", "S", "T", "U", "V", "W", "X", "Y", "Z">>
\* "abcdefghijklmnopqrstuvwxyz"
LowerCase == <<"a", "b", "c", "d", "e", "f", "g", "h", "i", "j", "k", "l",
        "m", "n", "o", "p", "q", "r", "s", "t", "u", "v", "w", "x", "y", "z">>

\* str.lower() on one character
LowerChar(c) ==
    IF \E n \in 1..Len(UpperCase) : UpperCase[n] = c
    THEN LowerCase[CHOOSE n \in 1..Len(UpperCase) : UpperCase[n] = c]
    ELSE c

\* str.lower()
Lower(s) == [n \in 1..Len(s) |-> LowerChar(s[n])]

RECURSIVE LStrip(_)
LStrip(s) ==
    IF s # <<>> /\ Head(s) \in Whitespace THEN LStrip(Tail(s)) ELSE s

RECURSIVE RStrip(_)
RStrip(s) ==
    IF s # <<>> /\ s[Len(s)] \in Whitespace
    THEN RStrip(SubSeq(s, 1, Len(s) - 1))
    ELSE s

\* str.strip()
Strip(s) == RStrip(LStrip(s))

\* sub in s
Contains(s, sub) ==
    \E n \in 0..(Len(s) - Len(sub)) : SubSeq(s, n + 1, n + Len(sub)) = sub

\* s.split("\n"): always at least one piece
RECURSIVE SplitLines(_)
SplitLines(s) ==
    IF \E n \in 1..Len(s) : s[n] = "\n"
    THEN LET n == CHOOSE m \in 1..Len(s) :
                      s[m] = "\n" /\ \A k \in 1..(m - 1) : s[k] # "\n"
         IN  <<SubSeq(s, 1, n - 1)>> \o SplitLines(SubSeq(s, n + 1, Len(s)))
    ELSE <<s>>

\* sep.join(parts)
RECURSIVE Join(_, _)
Join(sep, parts) ==
    IF parts = <<>> THEN <<>>
    ELSE IF Len(parts) = 1 THEN parts[1]
    ELSE parts[1] \o sep \o Join(sep, Tail(parts))

\* str(cell) of a spreadsheet cell: NaN prints as "nan"
Str(cell) == IF cell = NaN THEN <<"n", "a", "n">> ELSE cell

\* Python truthiness of an Optional[str]: None and "" are falsy
Truthy(s) == s # None /\ s # <<>>

----------------------------------------------------------------------------
(* The two regular expressions of parse_rules. *)

\* number of consecutive whitespace characters of s from position n on
RECURSIVE SpaceRun(_, _)
SpaceRun(s, n) ==
    IF n <= Len(s) /\ s[n] \in Whitespace THEN 1 + SpaceRun(s, n + 1) ELSE 0

\* number of consecutive characters other than the double quote from n on
RECURSIVE NonQuoteRun(_, _)
NonQuoteRun(s, n) ==
    IF n <= Len(s) /\ s[n] # "\"" THEN 1 + NonQuoteRun(s, n + 1) ELSE 0

\* column\s+"([^"]+)" matched with its first character at position n.
\* \s+ and [^"]+ are greedy and neither can match the quote that must follow,
\* so backtracking never finds a match the greedy runs miss.
ColMatchesAt(s, n) ==
    /\ n + 5 <= Len(s)
    \* "column"
    /\ SubSeq(s, n, n + 5) = <<"c", "o", "l", "u", "m", "n">>
    /\ LET w == SpaceRun(s, n + 6)
           q == n + 6 + w
           r == NonQuoteRun(s, q + 1)
       IN  /\ w >= 1
           /\ q <= Len(s) /\ s[q] = "\""
           /\ r >= 1
           /\ q + 1 + r <= Len(s) /\ s[q + 1 + r] = "\""

ColGroupAt(s, n) ==
    LET q == n + 6 + SpaceRun(s, n + 6)
    IN  SubSeq(s, q + 1, q + NonQuoteRun(s, q + 1))

\* "([^"]+)"\s*$ matched with its opening quote at position n
ValMatchesAt(s, n) ==
    /\ n <= Len(s) /\ s[n] = "\""
    /\ LET r == NonQuoteRun(s, n + 1)
           c == n + 1 + r
       IN  /\ r >= 1
           /\ c <= Len(s) /\ s[c] = "\""
           /\ c + SpaceRun(s, c + 1) = Len(s)

ValGroupAt(s, n) == SubSeq(s, n + 1, n + NonQuoteRun(s, n + 1))

\* the leftmost position a pattern matches at, as re.search finds it
Leftmost(S) == CHOOSE n \in S : \A m \in S : n <= m

\* re.search(r'column\s+"([^"]+)"', line): group(1), or None
col_match(line) ==
    LET S == {n \in 1..Len(line) : ColMatchesAt(line, n)}
    IN  IF S = {} THEN None ELSE ColGroupAt(line, Leftmost(S))

\* line 58 without the \s*$ that ties the value to the end of the line
val_match_unanchored(line) ==
    LET S == {n \in 1..Len(line) :
                 /\ line[n] = "\""
                 /\ NonQuoteRun(line, n + 1) >= 1
                 /\ n + 1 + NonQuoteRun(line, n + 1) <= Len(line)}
    IN  IF S = {} THEN None ELSE ValGroupAt(line, Leftmost(S))

\* re.search(r'"([^"]+)"\s*$', line): group(1), or None
val_match(line) ==
    LET S == {n \in 1..Len(line) : ValMatchesAt(line, n)}
    IN  IF S = {} THEN None ELSE ValGroupAt(line, Leftmost(S))

----------------------------------------------------------------------------
(* parse_rules: the body of the loop over the lines. *)

NoRule == [op |-> "skip", col |-> <<>>, val |-> <<>>]

\* lines 65-73 with "filter" tested before "exclude"
classify_filter_first(line) ==
    \* "filter"
    IF Contains(Lower(line), <<"f", "i", "l", "t", "e", "r">>) THEN "=="
    \* "exclude"
    ELSE IF Contains(Lower(line), <<"e", "x", "c", "l", "u", "d", "e">>) THEN
            "!="
    ELSE "skip"

\* the keyword tests of lines 65-73, on a line whose column and value
\* matched; "filter" is a substring of "unfilter", so the last test is
\* never reached with a line the second one refused
classify(line) ==
    \* "exclude"
    IF Contains(Lower(line), <<"e", "x", "c", "l", "u", "d", "e">>) THEN "!="
    \* "filter"
    ELSE IF Contains(Lower(line), <<"f", "i", "l", "t", "e", "r">>) THEN
        \* "contain"
        IF Contains(Lower(line), <<"c", "o", "n", "t", "a", "i", "n">>) THEN
                "==" ELSE "=="
    \* "unfilter"
    ELSE IF Contains(Lower(line), <<"u", "n", "f", "i", "l", "t", "e", "r">>)
            THEN "!="
    ELSE "skip"

\* one iteration, lines 52-73: what the line contributes, op "skip" when the
\* iteration appends nothing
LineRule(raw) ==
    LET line == Strip(raw)
    IN  IF line = <<>> THEN NoRule
        ELSE IF col_match(line) = None \/ val_match(line) = None THEN NoRule
        ELSE IF classify(line) = "skip" THEN NoRule
        ELSE [op |-> classify(line), col |-> col_match(line),
              val |-> val_match(line)]

\* the f-strings of lines 66, 69, 71 and 73
CondText(rule) ==
    IF rule.op = "!="
    \* "params['_source']['", "']!= '", "'"
    THEN <<"p", "a", "r", "a", "m", "s", "[", "'", "_", "s", "o", "u", "r",
            "c", "e", "'", "]", "[", "'">> \o rule.col \o <<"'", "]", "!",
            "=", " ", "'">> \o rule.val \o <<"'">>
    \* "params['_source']['", "'] == '", "'"
    ELSE <<"p", "a", "r", "a", "m", "s", "[", "'", "_", "s", "o", "u", "r",
            "c", "e", "'", "]", "[", "'">> \o rule.col \o <<"'", "]", " ",
            "=", "=", " ", "'">> \o rule.val \o <<"'">>

\* the conditions one iteration appends: none or one
LineCondition(raw) ==
    IF LineRule(raw).op = "skip" THEN <<>> ELSE <<CondText(LineRule(raw))>>

\* the fixed accumulator updates of lines 81-83
UpdateBlock ==
    \* "state.map.var += (doc['ColL Name'].value);"
    <<"s", "t", "a", "t", "e", ".", "m", "a", "p", ".", "v", "a", "r", " ",
            "+", "=", " ", "(", "d", "o", "c", "[", "'", "C", "o", "l", "L",
            " ", "N", "a", "m", "e", "'", "]", ".", "v", "a", "l", "u", "e",
            ")", ";">>
    \* "state.map.var1 += (doc['ColJ Name'].value);"
    \o <<"s", "t", "a", "t", "e", ".", "m", "a", "p", ".", "v", "a", "r", "1",
            " ", "+", "=", " ", "(", "d", "o", "c", "[", "'", "C", "o", "l",
            "J", " ", "N", "a", "m", "e", "'", "]", ".", "v", "a", "l", "u",
            "e", ")", ";">>
    \* "state.map.var2++;}"
    \o <<"s", "t", "a", "t", "e", ".", "m", "a", "p", ".", "v", "a", "r", "2",
            "+", "+", ";", "}">>

\* lines 76-86 without the test of line 77
BuildChain_unguarded(conds) ==
    \* "if(", " && ", "){"
    <<"i", "f", "(">> \o Join(<<" ", "&", "&", " ">>, conds) \o <<")", "{">>
            \o UpdateBlock

\* lines 76-86
BuildChain(conds) ==
    IF conds # <<>>
    \* "if(", " && ", "){"
    THEN <<"i", "f", "(">> \o Join(<<" ", "&", "&", " ">>, conds) \o <<")",
            "{">> \o UpdateBlock
    ELSE <<>>

RECURSIVE ParseLines(_)
ParseLines(ls) ==
    IF ls = <<>> THEN <<>>
    ELSE LineCondition(Head(ls)) \o ParseLines(Tail(ls))

\* parse_rules(rule_text) as one call
parse_rules(text) == BuildChain(ParseLines(SplitLines(text)))

----------------------------------------------------------------------------
(* Rule lines the specifications draw their inputs from: a lead carrying   *)
(* the keyword, the column part, and a tail carrying the value.            *)

Leads ==
    \* "1. Exclude line where ", "FILTER ", "Unfilter "
    { <<"1", ".", " ", "E", "x", "c", "l", "u", "d", "e", " ", "l", "i", "n",
            "e", " ", "w", "h", "e", "r", "e", " ">>, <<"F", "I", "L", "T",
            "E", "R", " ">>, <<"U", "n", "f", "i", "l", "t", "e", "r", " ">>,
      \* "Filter or exclude ", "Keep "
      <<"F", "i", "l", "t", "e", "r", " ", "o", "r", " ", "e", "x", "c", "l",
              "u", "d", "e", " ">>, <<"K", "e", "e", "p", " ">> }

\* leads holding one of the keywords parse_rules looks for
\* "Keep "
KeywordLeads == Leads \ { <<"K", "e", "e", "p", " ">> }

ColParts ==
    \* 'column "A"', "A"
    { [text |-> <<"c", "o", "l", "u", "m", "n", " ", "\"", "A", "\"">>, col
            |-> <<"A">>],
      \* 'column  "B c"', "B c"
      [text |-> <<"c", "o", "l", "u", "m", "n", " ", " ", "\"", "B", " ", "c",
              "\"">>, col |-> <<"B", " ", "c">>],
      \* "column A"
      [text |-> <<"c", "o", "l", "u", "m", "n", " ", "A">>, col |-> None] }

Tails ==
    \* ' = "x"', "x"
    { [text |-> <<" ", "=", " ", "\"", "x", "\"">>, val |-> <<"x">>, suffix
            |-> <<>>],
      \* ' contain "y z"', "y z"
      [text |-> <<" ", "c", "o", "n", "t", "a", "i", "n", " ", "\"", "y", " ",
              "z", "\"">>, val |-> <<"y", " ", "z">>, suffix |-> <<>>],
      \* ' = "x" only', "x", " only"
      [text |-> <<" ", "=", " ", "\"", "x", "\"", " ", "o", "n", "l", "y">>,
              val |-> <<"x">>, suffix |-> <<" ", "o", "n", "l", "y">>],
      \* " = x"
      [text |-> <<" ", "=", " ", "x">>, val |-> None, suffix |-> <<>>],
      [text |-> <<>>, val |-> None, suffix |-> <<>>] }

MkLine(lead, colpart, tail) == lead \o colpart.text \o tail.text

RuleLines ==
    {MkLine(l, c, t) : l \in Leads, c \in ColParts, t \in Tails}

\* the lines around the line under study: a well-formed line, a blank
\* line, and a line parse_rules drops
ContextLines ==
    \* 'FILTER column "A" contain "y z"', "  ", "Keep column A"
    { <<"F", "I", "L", "T", "E", "R", " ", "c", "o", "l", "u", "m", "n", " ",
            "\"", "A", "\"", " ", "c", "o", "n", "t", "a", "i", "n", " ",
            "\"", "y", " ", "z", "\"">>, <<" ", " ">>, <<"K", "e", "e", "p",
            " ", "c", "o", "l", "u", "m", "n", " ", "A">> }

SeqsUpTo(S, n) == UNION {[1..m -> S] : m \in 0..n}

\* the rule texts of a cell: any rule line, among up to MaxLines - 1
\* context lines, joined by line breaks
RuleTexts ==
    {Join(<<"\n">>, pre \o <<l>> \o post) :
        l \in RuleLines,
        pre \in SeqsUpTo(ContextLines, MaxLines - 1),
        post \in SeqsUpTo(ContextLines, MaxLines - 1)}

----------------------------------------------------------------------------
(* parse_rules as a process: split, one loop iteration per step, build.   *)

ParseIdle ==
    /\ ppc = "idle" /\ rule_text = <<>> /\ lines = <<>> /\ li = 0
    /\ conditions = <<>> /\ added = <<>> /\ painless_condition = <<>>

\* line 48-49
ParseSplit ==
    /\ ppc = "start"
    /\ lines' = SplitLines(rule_text)
    /\ conditions' = <<>>
    /\ li' = 1
    /\ ppc' = "loop"
    /\ UNCHANGED <<rule_text, added, painless_condition>>

\* lines 51-73, one iteration; added records what the iteration appended
ParseLine ==
    /\ ppc = "loop"
    /\ li <= Len(lines)
    /\ conditions' = conditions \o LineCondition(lines[li])
    /\ added' = Append(added, LineCondition(lines[li]))
    /\ li' = li + 1
    /\ UNCHANGED <<ppc, rule_text, lines, painless_condition>>

\* lines 75-86
ParseBuild ==
    /\ ppc = "loop"
    /\ li > Len(lines)
    /\ painless_condition' = BuildChain(conditions)
    /\ ppc' = "done"
    /\ UNCHANGED <<rule_text, lines, li, conditions, added>>

----------------------------------------------------------------------------
(* build_painless_script: the spreadsheet it reads.                        *)

\* first cells: a numerator label, a denominator label, a label holding
\* both words, and an empty cell
LabelCells ==
    \* " Numerator ", "DENOMINATOR rules", "Numerator/Denominator"
    { <<" ", "N", "u", "m", "e", "r", "a", "t", "o", "r", " ">>, <<"D", "E",
            "N", "O", "M", "I", "N", "A", "T", "O", "R", " ", "r", "u", "l",
            "e", "s">>, <<"N", "u", "m", "e", "r", "a", "t", "o", "r", "/",
            "D", "e", "n", "o", "m", "i", "n", "a", "t", "o", "r">>, NaN }

\* second cells: a rule text with one condition, one with a condition and a
\* dropped line, one with no condition, and a blank text
TextCells ==
    \* 'Exclude line where column "A" = "x"'
    { <<"E", "x", "c", "l", "u", "d", "e", " ", "l", "i", "n", "e", " ", "w",
            "h", "e", "r", "e", " ", "c", "o", "l", "u", "m", "n", " ", "\"",
            "A", "\"", " ", "=", " ", "\"", "x", "\"">>,
      \* 'Filter column "B" contain "y"\nKeep column A '
      <<"F", "i", "l", "t", "e", "r", " ", "c", "o", "l", "u", "m", "n", " ",
              "\"", "B", "\"", " ", "c", "o", "n", "t", "a", "i", "n", " ",
              "\"", "y", "\"", "\n", "K", "e", "e", "p", " ", "c", "o", "l",
              "u", "m", "n", " ", "A", " ">>,
      \* "Keep column A"
      <<"K", "e", "e", "p", " ", "c", "o", "l", "u", "m", "n", " ", "A">>,
      <<" ", " ">> }

\* the sheets of one to MaxRows rows of two cells
Sheets == UNION {[1..m -> LabelCells \X TextCells] : m \in 1..MaxRows}

\* line 25: df[0].astype(str).str.strip().str.lower()
NormalizeFirst(cell) == Lower(Strip(Str(cell)))

\* lines 101-110: the text of the reduce script, run by ReduceInit,
\* ReduceIter and ReduceReturn
reduce_script ==
    "def return_map = ['Final_Performance': 0.0,'Final_Numerator': 0.0, 'Final_Denominator': 0.0]; def new_map = ['num1': 0.0, 'num2': 0.0, 'num3': 0.0, 'num': 0.0, 'den': 0.0]; for(a in states){new_map.num1 += (a.map.var); new_map.num2 += (a.map.var1); new_map.num3 += (a.map.var2); new_map.num = (new_map.num1*((new_map.num2/new_map.num3)*100))/100.00; new_map.den += a.map.var;} if(new_map.den!=0){return_map.Final_Performance = Math.floor((float)(new_map.num)/(new_map.den)*10000.0)/100.0}else{return_map.Final_Performance ='';return_map.SL_Met=5;}return_map.Final_Denominator = new_map.den;return_map.Final_Numerator = new_map.num; return return_map;"

\* lines 95-124, with the fixed scripts and the query kept as opaque texts
painless_script(ms) ==
    [ map_script |-> ms,
      init_script |-> "state['map'] =['var': 0.0,'var1' : 0.0,'var2' : 0.0]",
      reduce_script |-> reduce_script,
      combine_script |-> "return state",
      size |-> 0,
      query |->
              "bool.must: match childslaId = childSLAId, match useInComputation = true"
              ]

\* lines 20-21
CheckExists ==
    /\ pc = "start"
    /\ IF ~rules_exists
       THEN /\ error' = "FileNotFoundError"
            /\ pc' = "raised"
       ELSE /\ pc' = "read"
            /\ UNCHANGED error
    /\ UNCHANGED <<rules_exists, sheet, df, i, numerator_text,
                   denominator_text, map_script, output>>

\* lines 24-28
ReadExcel ==
    /\ pc = "read"
    /\ df' = [r \in 1..Len(sheet) |->
                 <<NormalizeFirst(sheet[r][1]), sheet[r][2]>>]
    /\ numerator_text' = None
    /\ denominator_text' = None
    /\ i' = 1
    /\ pc' = "scan"
    /\ UNCHANGED <<rules_exists, sheet, map_script, output, error>>

\* lines 31-35 with first-match lock-in instead of last-match-wins
scan_row_first_wins(row, num, den) ==
    \* "numerator"
    IF Contains(row[1], <<"n", "u", "m", "e", "r", "a", "t", "o", "r">>)
    THEN <<IF num = None THEN Strip(Str(row[2])) ELSE num, den>>
    \* "denominator"
    ELSE IF Contains(row[1], <<"d", "e", "n", "o", "m", "i", "n", "a", "t",
            "o", "r">>)
    THEN <<num, IF den = None THEN Strip(Str(row[2])) ELSE den>>
    ELSE <<num, den>>

\* lines 31-35: the two texts after one row
scan_row(row, num, den) ==
    \* "numerator"
    IF Contains(row[1], <<"n", "u", "m", "e", "r", "a", "t", "o", "r">>)
    THEN <<Strip(Str(row[2])), den>>
    \* "denominator"
    ELSE IF Contains(row[1], <<"d", "e", "n", "o", "m", "i", "n", "a", "t",
            "o", "r">>)
    THEN <<num, Strip(Str(row[2]))>>
    ELSE <<num, den>>

\* lines 30-35, one iteration
ScanRow ==
    /\ pc = "scan"
    /\ i <= Len(df)
    /\ numerator_text' = scan_row(df[i], numerator_text, denominator_text)[1]
    /\ denominator_text' = scan_row(df[i], numerator_text,
            denominator_text)[2]
    /\ i' = i + 1
    /\ UNCHANGED <<pc, rules_exists, sheet, df, map_script, output, error>>

\* line 37 with "and" in place of "or"
texts_missing_both(num, den) == ~Truthy(num) /\ ~Truthy(den)

\* line 37
texts_missing(num, den) == ~Truthy(num) \/ ~Truthy(den)

\* lines 37-38
CheckTexts ==
    /\ pc = "scan"
    /\ i > Len(df)
    /\ IF texts_missing(numerator_text, denominator_text)
       THEN /\ error' = "ValueError"
            /\ pc' = "raised"
       ELSE /\ pc' = "build"
            /\ UNCHANGED error
    /\ UNCHANGED <<rules_exists, sheet, df, i, numerator_text,
                   denominator_text, map_script, output>>

\* lines 89-92
BuildMapScript ==
    /\ pc = "build"
    /\ map_script' = parse_rules(numerator_text) \o <<" ", " ">>
                         \o parse_rules(denominator_text)
    /\ pc' = "save"
    /\ UNCHANGED <<rules_exists, sheet, df, i, numerator_text,
                   denominator_text, output, error>>

\* lines 95-130
SaveJson ==
    /\ pc = "save"
    /\ output' = Append(output, painless_script(map_script))
    /\ pc' = "done"
    /\ UNCHANGED <<rules_exists, sheet, df, i, numerator_text,
                   denominator_text, map_script, error>>

----------------------------------------------------------------------------
(* The generated init_script, map_script and combine_script on one shard.  *)
(* parse_rules spells each block's statement as                            *)
(*   if(c1 && ... && cn){var += ColL; var1 += ColJ; var2++;}                *)
(* or as the empty string; the statement is run here from the rules        *)
(* [op, col, val] its conditions c1..cn were formatted from.               *)

\* the rules behind the conditions of parse_rules(text), in order
RECURSIVE RulesOfLines(_)
RulesOfLines(ls) ==
    IF ls = <<>> THEN <<>>
    ELSE (IF LineRule(Head(ls)).op = "skip" THEN <<>> ELSE
            <<LineRule(Head(ls))>>)
             \o RulesOfLines(Tail(ls))

RulesOf(text) == RulesOfLines(SplitLines(text))

\* the rule texts that reach parse_rules: non-empty once trimmed (line 37)
MapTexts ==
    {Strip(t) : t \in {c \in TextCells : Truthy(Strip(Str(c)))}}
        \* 'Filter column "A" = "x"\nExclude column "B" = "y"'
        \cup { <<"F", "i", "l", "t", "e", "r", " ", "c", "o", "l", "u", "m",
                "n", " ", "\"", "A", "\"", " ", "=", " ", "\"", "x", "\"",
                "\n", "E", "x", "c", "l", "u", "d", "e", " ", "c", "o", "l",
                "u", "m", "n", " ", "\"", "B", "\"", " ", "=", " ", "\"", "y",
                "\"">> }

\* the documents of the shard: the two columns the rules name, and the two
\* numeric fields the update block adds up
Docs ==
    \* "A", "B", "x", "y"
    [ source : [{<<"A">>, <<"B">>} -> {<<"x">>, <<"y">>}],
      ColL : {2, 3}, ColJ : {1} ]
        \* "A", "x"
        \cup [ source : [{<<"A">>} -> {<<"x">>}], ColL : {5}, ColJ : {7} ]

\* params['_source'][col]: null (None) for a field the document lacks
SourceField(doc, col) ==
    IF col \in DOMAIN doc.source THEN doc.source[col] ELSE None

\* one condition of lines 66-73 on a document
CondHolds(rule, doc) ==
    IF rule.op = "!="
    THEN SourceField(doc, rule.col) # rule.val
    ELSE SourceField(doc, rule.col) = rule.val

\* the guard of line 78: the conjunction of the conditions
GuardHolds(rules, doc) == \A k \in 1..Len(rules) : CondHolds(rules[k], doc)

\* lines 77-84: one block's statement on one document; a block without
\* conditions has no statement
RunStatement(rules, sm, doc) ==
    IF rules # <<>> /\ GuardHolds(rules, doc)
    THEN [var |-> sm.var + doc.ColL, var1 |-> sm.var1 + doc.ColJ,
          var2 |-> sm.var2 + 1]
    ELSE sm

\* line 92 with the denominator's statement as an else branch
RunMapScript_else(nrules, drules, sm, doc) ==
    IF nrules # <<>> /\ GuardHolds(nrules, doc)
    THEN RunStatement(nrules, sm, doc)
    ELSE RunStatement(drules, sm, doc)

\* line 92: the numerator's statement, then the denominator's
RunMapScript(nrules, drules, sm, doc) ==
    RunStatement(drules, RunStatement(nrules, sm, doc), doc)

MapIdle ==
    /\ mpc = "idle" /\ num_rules = <<>> /\ den_rules = <<>> /\ docs = <<>>
    /\ di = 0 /\ state_map = <<>>

\* line 100, init_script
MapInit ==
    /\ mpc = "start"
    /\ state_map' = [var |-> 0, var1 |-> 0, var2 |-> 0]
    /\ di' = 1
    /\ mpc' = "map"
    /\ UNCHANGED <<num_rules, den_rules, docs>>

\* line 99, map_script on the next document
MapDoc ==
    /\ mpc = "map"
    /\ di <= Len(docs)
    /\ state_map' = RunMapScript(num_rules, den_rules, state_map, docs[di])
    /\ di' = di + 1
    /\ UNCHANGED <<mpc, num_rules, den_rules, docs>>

\* line 111, combine_script: the shard's state as it is
MapCombine ==
    /\ mpc = "map"
    /\ di > Len(docs)
    /\ mpc' = "combined"
    /\ UNCHANGED <<num_rules, den_rules, docs, di, state_map>>

----------------------------------------------------------------------------
(* The generated reduce_script.                                            *)
(* A Painless double is an exact fraction <<n, d>> in lowest terms with    *)
(* d > 0, or one of the values IEEE division by zero gives: <<0, 0>> NaN,  *)
(* <<1, 0>> Infinity, <<-1, 0>> -Infinity. Rounding is not modelled.       *)

Abs(x) == IF x < 0 THEN -x ELSE x

Sign(x) == IF x < 0 THEN -1 ELSE IF x = 0 THEN 0 ELSE 1

RECURSIVE Gcd(_, _)
Gcd(a, b) == IF b = 0 THEN a ELSE Gcd(b, a % b)

Norm(n, d) ==
    IF d = 0 THEN <<Sign(n), 0>>
    ELSE LET g == Gcd(Abs(n), Abs(d))
         IN  <<(Sign(d) * n) \div g, Abs(d) \div g>>

Num(k) == <<k, 1>>

IsFinite(x) == x[2] # 0

DAdd(x, y) ==
    IF x[2] = 0 /\ y[2] = 0
    THEN (IF x = y THEN x ELSE <<0, 0>>)
    ELSE Norm(x[1] * y[2] + y[1] * x[2], x[2] * y[2])

DMul(x, y) == Norm(x[1] * y[1], x[2] * y[2])

\* double division: no exception, x / 0 is NaN or an infinity
DDiv(x, y) ==
    IF y[1] < 0
    THEN Norm((0 - x[1]) * y[2], x[2] * (0 - y[1]))
    ELSE Norm(x[1] * y[2], x[2] * y[1])

\* Math.floor
DFloor(x) == IF x[2] = 0 THEN x ELSE <<x[1] \div x[2], 1>>

\* the states the shards return: the counters of a shard that accumulated
\* no document are all 0 (line 100)
ShardStates ==
    { [var |-> 0, var1 |-> 0, var2 |-> 0] }
        \cup [var : {5, 10}, var1 : {1, 2}, var2 : {1, 4}]

\* lines 104-105 with num added up over the iterations
LoopBody_num_accumulates(m, a) ==
    LET n1 == DAdd(m.num1, Num(a.var))
        n2 == DAdd(m.num2, Num(a.var1))
        n3 == DAdd(m.num3, Num(a.var2))
    IN  [ num1 |-> n1, num2 |-> n2, num3 |-> n3,
          num |-> DAdd(m.num,
                       DDiv(DMul(n1, DMul(DDiv(n2, n3), Num(100))),
                               Num(100))),
          den |-> DAdd(m.den, Num(a.var)) ]

\* lines 104-105: the body of for(a in states)
LoopBody(m, a) ==
    LET n1 == DAdd(m.num1, Num(a.var))
        n2 == DAdd(m.num2, Num(a.var1))
        n3 == DAdd(m.num3, Num(a.var2))
    IN  [ num1 |-> n1, num2 |-> n2, num3 |-> n3,
          num |-> DDiv(DMul(n1, DMul(DDiv(n2, n3), Num(100))), Num(100)),
          den |-> DAdd(m.den, Num(a.var)) ]

ReduceIdle ==
    /\ rpc = "idle" /\ states = <<>> /\ ri = 0 /\ new_map = <<>>
    /\ return_map = <<>>

\* lines 102-103
ReduceInit ==
    /\ rpc = "start"
    /\ return_map' = [ Final_Performance |-> Num(0),
                       Final_Numerator |-> Num(0),
                       Final_Denominator |-> Num(0) ]
    /\ new_map' = [ num1 |-> Num(0), num2 |-> Num(0), num3 |-> Num(0),
                    num |-> Num(0), den |-> Num(0) ]
    /\ ri' = 1
    /\ rpc' = "loop"
    /\ UNCHANGED states

\* lines 104-105, one iteration
ReduceIter ==
    /\ rpc = "loop"
    /\ ri <= Len(states)
    /\ new_map' = LoopBody(new_map, states[ri])
    /\ ri' = ri + 1
    /\ UNCHANGED <<rpc, states, return_map>>

\* lines 106-109; '' is the empty string <<>>
ReduceReturn ==
    /\ rpc = "loop"
    /\ ri > Len(states)
    /\ return_map' =
           IF new_map.den # Num(0)
           THEN [ Final_Performance |->
                      DDiv(DFloor(DMul(DDiv(new_map.num, new_map.den),
                                       Num(10000))), Num(100)),
                  Final_Numerator |-> new_map.num,
                  Final_Denominator |-> new_map.den ]
           ELSE [ Final_Performance |-> <<>>,
                  SL_Met |-> 5,
                  Final_Numerator |-> new_map.num,
                  Final_Denominator |-> new_map.den ]
    /\ rpc' = "done"
    /\ UNCHANGED <<states, ri, new_map>>

----------------------------------------------------------------------------
(* Claims about parse_rules, checked under SpecParse. *)

\* the line iteration k of the loop worked on, after line 52
LineAt(k) == Strip(lines[k])

\* the condition texts the claims speak of, written out
NeText(col, val) ==
    \* "params['_source']['", "']!= '", "'"
    <<"p", "a", "r", "a", "m", "s", "[", "'", "_", "s", "o", "u", "r", "c",
            "e", "'", "]", "[", "'">> \o col \o <<"'", "]", "!", "=", " ",
            "'">> \o val \o <<"'">>
EqText(col, val) ==
    \* "params['_source']['", "'] == '", "'"
    <<"p", "a", "r", "a", "m", "s", "[", "'", "_", "s", "o", "u", "r", "c",
            "e", "'", "]", "[", "'">> \o col \o <<"'", "]", " ", "=", "=",
            " ", "'">> \o val \o <<"'">>

HasWord(line, w) == Contains(Lower(line), w)

\* C1: for every line from which a column name C and a value V are
\* extracted, a line containing "exclude" (in any case) adds the inequality
\* for C and V, also when it contains "filter" as well; otherwise a line
\* containing "filter", with or without "contain", adds the equality.
C1_ExcludeNeFilterEq ==
    \A k \in 1..Len(added) :
        LET line == LineAt(k)
            C == col_match(line)
            V == val_match(line)
        IN  (C # None /\ V # None) =>
              \* "exclude"
              /\ HasWord(line, <<"e", "x", "c", "l", "u", "d", "e">>) =>
                      added[k] = <<NeText(C, V)>>
              \* "exclude", "filter"
              /\ (~HasWord(line, <<"e", "x", "c", "l", "u", "d", "e">>) /\
                      HasWord(line, <<"f", "i", "l", "t", "e", "r">>))
                     => added[k] = <<EqText(C, V)>>

\* a finished run that saw a line with both keywords, one of them in upper
\* case, and a line with "filter" and "contain", each adding its condition
C1_Witness ==
    /\ ppc = "done"
    /\ \E k \in 1..Len(added) :
           \* "exclude", "filter"
           /\ HasWord(LineAt(k), <<"e", "x", "c", "l", "u", "d", "e">>) /\
                   HasWord(LineAt(k), <<"f", "i", "l", "t", "e", "r">>)
           \* "filter"
           /\ ~Contains(LineAt(k), <<"f", "i", "l", "t", "e", "r">>)
           \* "B c", "x"
           /\ added[k] = <<NeText(<<"B", " ", "c">>, <<"x">>)>>
    /\ \E k \in 1..Len(added) :
           \* "filter", "contain"
           /\ HasWord(LineAt(k), <<"f", "i", "l", "t", "e", "r">>) /\
                   HasWord(LineAt(k), <<"c", "o", "n", "t", "a", "i", "n">>)
           \* "exclude"
           /\ ~HasWord(LineAt(k), <<"e", "x", "c", "l", "u", "d", "e">>)
           \* "A", "y z"
           /\ added[k] = <<EqText(<<"A">>, <<"y", " ", "z">>)>>

\* C2: every line with "unfilter" and without "exclude", from which a column
\* name C and a value V are extracted, adds the inequality for C and V.
C2_UnfilterNe ==
    \A k \in 1..Len(added) :
        LET line == LineAt(k)
            C == col_match(line)
            V == val_match(line)
        \* "unfilter"
        IN  (C # None /\ V # None /\ HasWord(line, <<"u", "n", "f", "i", "l",
                "t", "e", "r">>)
                \* "exclude"
                /\ ~HasWord(line, <<"e", "x", "c", "l", "u", "d", "e">>))
                => added[k] = <<NeText(C, V)>>

\* the lines of the grammar: a keyword, the word column, a quoted column
\* name, a quoted value, and the text after the value
GrammarLines ==
    {[line |-> Strip(MkLine(l, c, t)), col |-> c.col, val |-> t.val,
      suffix |-> t.suffix] :
        l \in KeywordLeads,
        c \in {x \in ColParts : x.col # None},
        t \in {x \in Tails : x.val # None}}

HasValue(conds, col, val) ==
    conds = <<NeText(col, val)>> \/ conds = <<EqText(col, val)>>

\* C3: every line of the grammar, with or without text after the value,
\* adds a condition whose value is the last quoted token of the line.
C3_ValueDespiteSuffix ==
    \A k \in 1..Len(added) : \A g \in GrammarLines :
        LineAt(k) = g.line => HasValue(added[k], g.col, g.val)

\* C3 as amended: a line of the grammar that ends with the closing quote of
\* its value adds a condition with that value; one with further text after
\* the value (holding no double quote) adds nothing.
C3_ValueWhenLineEndsWithIt ==
    \A k \in 1..Len(added) : \A g \in GrammarLines :
        LineAt(k) = g.line =>
            IF g.suffix = <<>>
            THEN HasValue(added[k], g.col, g.val)
            ELSE added[k] = <<>>

\* a finished run over a line ending with its value, which added it, and a
\* line with text after its value, which added nothing
C3_Witness ==
    /\ ppc = "done"
    /\ \E k \in 1..Len(added) : \E g \in GrammarLines :
           /\ LineAt(k) = g.line /\ g.suffix = <<>> /\ g.val = <<"y", " ",
                   "z">>
           /\ HasValue(added[k], g.col, g.val)
    /\ \E k \in 1..Len(added) : \E g \in GrammarLines :
           LineAt(k) = g.line /\ g.suffix # <<>> /\ added[k] = <<>>

\* the lines that lack the quoted column name after the word column, or
\* lack a quoted value (the column name may be their only quoted token)
DefectiveLines ==
    {Strip(MkLine(l, ct[1], ct[2])) :
        l \in Leads,
        ct \in {x \in ColParts \X Tails : x[1].col = None \/ x[2].val = None}}

\* C4: a line lacking the quoted column name or the quoted value adds no
\* condition, and the guard is built from the other lines alone.
C4_DefectiveLineSkipped ==
    \A k \in 1..Len(added) : LineAt(k) \in DefectiveLines => added[k] = <<>>

----------------------------------------------------------------------------
(* Claims about build_painless_script, checked under Spec. *)

\* the scan of the rows is over
Scanned == pc \in {"build", "save", "done"} \/ error = "ValueError"

\* the run is over
Finished == pc \in {"done", "raised"}

\* C5: the output is written at most once, and only when the source exists
\* and both texts were located; a run on a missing source, or one whose scan
\* left a text unset, ends with an error raised and nothing written.
C5_WriteOnceOrRaise ==
    /\ Len(output) <= 1
    /\ output # <<>> =>
           /\ rules_exists
           /\ numerator_text # None /\ denominator_text # None
           /\ error = "none"
    /\ (Finished /\ (~rules_exists \/ numerator_text = None
                        \/ denominator_text = None))
           => (pc = "raised" /\ error # "none" /\ output = <<>>)
    /\ error # "none" => output = <<>>

\* a run over an existing sheet that located the numerator text only, and
\* ended with the error and no output
C5_Witness ==
    /\ rules_exists /\ Finished
    /\ numerator_text # None /\ denominator_text = None
    /\ error = "ValueError" /\ output = <<>>

\* the lines of a rule text none of which yields a condition
NoCondition(text) ==
    \A k \in 1..Len(SplitLines(text)) : LineRule(SplitLines(text)[k]).op =
            "skip"

\* the statement of a block that has conditions: the guard, then the updates
IsStatement(s) ==
    /\ Len(s) > Len(UpdateBlock) + 5
    /\ SubSeq(s, 1, 3) = <<"i", "f", "(">>
    /\ SubSeq(s, Len(s) - Len(UpdateBlock) + 1, Len(s)) = UpdateBlock

\* C8: a block in which no line yields a condition compiles to the empty
\* string, and the map script is then the other block's statement and the
\* two separating blanks, the numerator's statement first; no error is
\* raised.
C8_EmptyBlockEmptyStatement ==
    pc \in {"save", "done"} =>
        LET num == parse_rules(numerator_text)
            den == parse_rules(denominator_text)
        IN  /\ error = "none"
            /\ NoCondition(numerator_text) => num = <<>>
            /\ NoCondition(denominator_text) => den = <<>>
            /\ ~NoCondition(numerator_text) => IsStatement(num)
            /\ ~NoCondition(denominator_text) => IsStatement(den)
            /\ NoCondition(numerator_text) => map_script = <<" ", " ">> \o den
            /\ NoCondition(denominator_text) => map_script = num \o <<" ",
                    " ">>
            /\ SubSeq(map_script, 1, Len(num)) = num
            /\ Len(map_script) = Len(num) + 2 + Len(den)

\* a written document whose numerator block had no condition: its map
\* script is the two blanks and the denominator's statement
C8_Witness ==
    /\ pc = "done" /\ Len(output) = 1
    /\ NoCondition(numerator_text)
    /\ output[1].map_script =
           \* "  if(params['_source']['A']!= 'x'){"
           <<" ", " ", "i", "f", "(", "p", "a", "r", "a", "m", "s", "[", "'",
                   "_", "s", "o", "u", "r", "c", "e", "'", "]", "[", "'", "A",
                   "'", "]", "!", "=", " ", "'", "x", "'", ")", "{">> \o
                   UpdateBlock

\* the rows of the sheet whose normalised first cell holds the word
RowsWith(word) ==
    {r \in 1..Len(sheet) : Contains(Lower(Strip(Str(sheet[r][1]))), word)}

Last(S) == CHOOSE r \in S : \A q \in S : q <= r

\* the trimmed second cell of the last row of S, None when S is empty
TextOfLast(S) == IF S = {} THEN None ELSE Strip(Str(sheet[Last(S)][2]))

\* C9: after the scan each text is the trimmed second cell of the last row
\* whose first cell holds its label, rows holding both labels included, and
\* is unset only when no row holds its label.
C9_LastMatchWinsBoth ==
    Scanned =>
        \* "numerator"
        /\ numerator_text = TextOfLast(RowsWith(<<"n", "u", "m", "e", "r",
                "a", "t", "o", "r">>))
        \* "denominator"
        /\ denominator_text = TextOfLast(RowsWith(<<"d", "e", "n", "o", "m",
                "i", "n", "a", "t", "o", "r">>))

\* C9 as amended: a row whose first cell holds "numerator" counts for the
\* numerator only; the denominator text is the trimmed second cell of the
\* last row holding "denominator" and not "numerator", and is unset only
\* when there is no such row.
C9_LastMatchWinsNumeratorFirst ==
    Scanned =>
        \* "numerator"
        /\ numerator_text = TextOfLast(RowsWith(<<"n", "u", "m", "e", "r",
                "a", "t", "o", "r">>))
        /\ denominator_text =
               \* "denominator", "numerator"
               TextOfLast(RowsWith(<<"d", "e", "n", "o", "m", "i", "n", "a",
                       "t", "o", "r">>) \ RowsWith(<<"n", "u", "m", "e", "r",
                       "a", "t", "o", "r">>))

\* a scan over two rows holding "numerator" with different texts, the later
\* one holding "denominator" too: the later text is the numerator text and
\* the denominator text is unset
C9_Witness ==
    /\ Scanned
    \* "numerator"
    /\ \E r, q \in RowsWith(<<"n", "u", "m", "e", "r", "a", "t", "o", "r">>) :
           \* "numerator"
           /\ r < q /\ q = Last(RowsWith(<<"n", "u", "m", "e", "r", "a", "t",
                   "o", "r">>))
           \* "denominator"
           /\ q \in RowsWith(<<"d", "e", "n", "o", "m", "i", "n", "a", "t",
                   "o", "r">>)
           /\ Strip(Str(sheet[r][2])) # Strip(Str(sheet[q][2]))
           /\ numerator_text = Strip(Str(sheet[q][2]))
           /\ denominator_text = None

----------------------------------------------------------------------------
(* Claims about the reduce script, checked under SpecReduce. *)

\* C6: the division by num3 is evaluated only when num3 is not 0, so no
\* iteration leaves in num the NaN or infinity a division by zero gives.
C6_DivisionGuarded ==
    rpc \in {"loop", "done"} => IsFinite(new_map.num)

RECURSIVE SumVar(_)
SumVar(ss) == IF ss = <<>> THEN 0 ELSE Head(ss).var + SumVar(Tail(ss))

RECURSIVE SumVar1(_)
SumVar1(ss) == IF ss = <<>> THEN 0 ELSE Head(ss).var1 + SumVar1(Tail(ss))

RECURSIVE SumVar2(_)
SumVar2(ss) == IF ss = <<>> THEN 0 ELSE Head(ss).var2 + SumVar2(Tail(ss))

\* the working sums after the loop has run over the list ss
RECURSIVE AfterLoop(_, _)
AfterLoop(m, ss) ==
    IF ss = <<>> THEN m ELSE AfterLoop(LoopBody(m, Head(ss)), Tail(ss))

Orderings(ss) ==
    {[k \in 1..Len(ss) |-> ss[p[k]]] :
        p \in {f \in [1..Len(ss) -> 1..Len(ss)] :
                  \A a, b \in 1..Len(ss) : f[a] = f[b] => a = b}}

LoopEnded == rpc = "done" \/ (rpc = "loop" /\ ri > Len(states))

----------------------------------------------------------------------------
(* Claims about the map script, checked under SpecMap. *)

\* 1 when the block has a statement and the document satisfies its guard
Hit(rules, doc) == IF rules # <<>> /\ GuardHolds(rules, doc) THEN 1 ELSE 0

Hits(doc) == Hit(num_rules, doc) + Hit(den_rules, doc)

\* the sum of f over the documents the map script has run on
RECURSIVE Total(_, _)
Total(f(_), n) == IF n = 0 THEN 0 ELSE f(docs[n]) + Total(f, n - 1)

HitsColL(doc) == Hits(doc) * doc.ColL
HitsColJ(doc) == Hits(doc) * doc.ColJ

\* C10: both statements update the same three accumulators: after any
\* documents var2 is the number of pairs (document, statement) with the
\* guard satisfied, and var and var1 hold each document's ColL and ColJ
\* once per satisfied guard: twice for both, once for one, not at all for
\* none.
C10_SharedAccumulators ==
    mpc \in {"map", "combined"} =>
        /\ state_map.var2 = Total(Hits, di - 1)
        /\ state_map.var = Total(HitsColL, di - 1)
        /\ state_map.var1 = Total(HitsColJ, di - 1)

\* a shard whose documents satisfied both guards, exactly one, and, for the
\* last one, neither
C10_Witness ==
    /\ mpc = "combined"
    /\ \E a, b \in 1..Len(docs) :
           /\ Hits(docs[a]) = 2 /\ Hits(docs[b]) = 1
    /\ Hits(docs[Len(docs)]) = 0
    /\ state_map.var2 = 3

----------------------------------------------------------------------------
(* Specifications. *)

PipeIdle ==
    /\ pc = "idle" /\ rules_exists = FALSE /\ sheet = <<>> /\ df = <<>> /\ i =
            0
    /\ numerator_text = None /\ denominator_text = None
    /\ map_script = <<>> /\ output = <<>> /\ error = "none"

\* parse_rules on every rule text a cell can hold: build_painless_script
\* passes it the stripped, non-empty text of a cell (lines 33, 35, 37)
InitParse ==
    /\ \E t \in RuleTexts :
           /\ Len(SplitLines(t)) <= MaxLines
           /\ rule_text = Strip(t)
    /\ ppc = "start" /\ lines = <<>> /\ li = 0
    /\ conditions = <<>> /\ added = <<>> /\ painless_condition = <<>>
    /\ PipeIdle /\ MapIdle /\ ReduceIdle

NextParse ==
    \/ ParseSplit /\ UNCHANGED <<pipeVars, mapVars, reduceVars>>
    \/ ParseLine /\ UNCHANGED <<pipeVars, mapVars, reduceVars>>
    \/ ParseBuild /\ UNCHANGED <<pipeVars, mapVars, reduceVars>>

SpecParse == InitParse /\ [][NextParse]_vars

\* build_painless_script on a missing file, and on every sheet
Init ==
    /\ \/ rules_exists = FALSE /\ sheet = <<>>
       \/ rules_exists = TRUE /\ sheet \in Sheets
    /\ pc = "start" /\ df = <<>> /\ i = 0
    /\ numerator_text = None /\ denominator_text = None
    /\ map_script = <<>> /\ output = <<>> /\ error = "none"
    /\ ParseIdle /\ MapIdle /\ ReduceIdle

Next ==
    \/ CheckExists /\ UNCHANGED <<parseVars, mapVars, reduceVars>>
    \/ ReadExcel /\ UNCHANGED <<parseVars, mapVars, reduceVars>>
    \/ ScanRow /\ UNCHANGED <<parseVars, mapVars, reduceVars>>
    \/ CheckTexts /\ UNCHANGED <<parseVars, mapVars, reduceVars>>
    \/ BuildMapScript /\ UNCHANGED <<parseVars, mapVars, reduceVars>>
    \/ SaveJson /\ UNCHANGED <<parseVars, mapVars, reduceVars>>

Spec == Init /\ [][Next]_vars

\* the map phase of one shard, for every pair of rule texts and documents
InitMap ==
    /\ \E nt \in MapTexts, dt \in MapTexts :
           num_rules = RulesOf(nt) /\ den_rules = RulesOf(dt)
    /\ docs \in UNION {[1..m -> Docs] : m \in 0..MaxDocs}
    /\ mpc = "start" /\ di = 0 /\ state_map = <<>>
    /\ PipeIdle /\ ParseIdle /\ ReduceIdle

NextMap ==
    \/ MapInit /\ UNCHANGED <<pipeVars, parseVars, reduceVars>>
    \/ MapDoc /\ UNCHANGED <<pipeVars, parseVars, reduceVars>>
    \/ MapCombine /\ UNCHANGED <<pipeVars, parseVars, reduceVars>>

SpecMap == InitMap /\ [][NextMap]_vars

\* the reduce phase, for every list of up to MaxShards shard states
InitReduce ==
    /\ states \in UNION {[1..m -> ShardStates] : m \in 0..MaxShards}
    /\ rpc = "start" /\ ri = 0 /\ new_map = <<>> /\ return_map = <<>>
    /\ PipeIdle /\ ParseIdle /\ MapIdle

NextReduce ==
    \/ ReduceInit /\ UNCHANGED <<pipeVars, parseVars, mapVars>>
    \/ ReduceIter /\ UNCHANGED <<pipeVars, parseVars, mapVars>>
    \/ ReduceReturn /\ UNCHANGED <<pipeVars, parseVars, mapVars>>

SpecReduce == InitReduce /\ [][NextReduce]_vars

====
